---------------------------- MODULE Spec2Model ----------------------------
(***************************************************************************)
(* A model of pydm's DataStore (src/pydm/data_plugins/data_store.py): the  *)
(* process-wide singleton holding, per channel address, the latest payload *)
(* and its introspection overlay.                                          *)
(*                                                                         *)
(* and of the simulated instrument of src/testing-ioc.py (myDriver).       *)
(*                                                                         *)
(* Five specifications share the variables:                                *)
(*   Spec      calls made one after the other (each call is one step);     *)
(*   SpecAcq   threads acquiring the store concurrently, one step per      *)
(*             attribute read or write of __new__ and __init__;            *)
(*   SpecConc  a producer thread and consumer threads calling update,      *)
(*             remove and fetch on an acquired store, one step per map     *)
(*             access;                                                     *)
(*   SpecGen   DataKeys.generate_introspection_for applied to every        *)
(*             assignment of its nine keys;                                *)
(*   SpecIoc   myDriver: the server thread running write and the thread    *)
(*             runSimScope, one step per access to a parameter or to the   *)
(*             event.                                                      *)
(***************************************************************************)
EXTENDS Integers, Sequences, FiniteSets

(***************************************************************************)
(* Bounds of the model.                                                    *)
(***************************************************************************)
NumAddr == 2

NumThreads == 2

Addresses == 1..NumAddr

Threads == 1..NumThreads

(***************************************************************************)
(* Python values.  Every value is a record of the same shape: its type     *)
(* name t, the items d of a dict (a set of <<key, value>> pairs), the      *)
(* elements e of a tuple or list, and the characters s of a str.           *)
(***************************************************************************)
None == [t |-> "NoneType", d |-> {}, e |-> <<>>, s |-> ""]

Dict(items) == [t |-> "dict", d |-> items, e |-> <<>>, s |-> ""]

Tuple(elems) == [t |-> "tuple", d |-> {}, e |-> elems, s |-> ""]

List(elems) == [t |-> "list", d |-> {}, e |-> elems, s |-> ""]

Str(chars) == [t |-> "str", d |-> {}, e |-> <<>>, s |-> chars]

\* isinstance(value, cls) for the classes __setitem__ tests
isinstance(value, cls) == value.t = cls

\* The truth value of a Python value, as `if introspection:` takes it
Truthy(value) ==
    CASE value.t = "NoneType" -> FALSE
      [] value.t = "dict" -> value.d # {}
      [] value.t \in {"tuple", "list"} -> Len(value.e) > 0
      [] value.t = "str" -> value.s # ""

\* dict.get(key, default)
dict_get(dict, key, default) ==
    IF key \in DOMAIN dict THEN dict[key] ELSE default

\* dict.update({key: value})
dict_update(dict, key, value) ==
    [k \in (DOMAIN dict) \cup {key} |-> IF k = key THEN value ELSE dict[k]]

\* dict.pop(key, None)
dict_pop(dict, key) ==
    [k \in (DOMAIN dict) \ {key} |-> dict[k]]

\* dict.setdefault(key, default): what it leaves of the dict
dict_setdefault_effect(dict, key, default) ==
    IF key \in DOMAIN dict THEN dict ELSE dict_update(dict, key, default)

\* dict.get(key, default): what it leaves of the dict, which is the dict
dict_get_effect(dict, key, default) == dict

\* {} : the dict with no key
EmptyMap == [k \in {} |-> None]

(***************************************************************************)
(* The inputs the calls are made with.                                     *)
(***************************************************************************)
P0 == Dict({})

P1 == Dict({<<"value", "1">>})

P2 == Dict({<<"value", "2">>, <<"sevr", "0">>})

O1 == Dict({<<"VALUE", "value">>})

O2 == Dict({<<"VALUE", "value">>, <<"SEVERITY", "sevr">>})

Payloads == {P0, P1, P2}

Overlays == {None, Dict({}), O1, O2}

\* The values an indexed write store[key] = value is made with
SetValues ==
    {P0, P1, P2,
     Tuple(<<P1, O1>>), Tuple(<<P2, O2>>), Tuple(<<P1, None>>),
     Tuple(<<P2, Dict({})>>),
     Tuple(<<>>), Tuple(<<P1>>), Tuple(<<P1, O1, P2>>),
     List(<<P1, O1>>), Str("value"), None}

(***************************************************************************)
(* The state.                                                              *)
(***************************************************************************)
VARIABLES
    instance,   \* DataStore.__instance: NoObj (None) or a reference into heap
    heap,       \* the DataStore objects created so far, by reference
    handles,    \* the references the acquisitions DataStore() have returned
    mapsCreated,\* how many times __init__ has made the two maps (line 91)
    lastCall,   \* the call made last
    ret,        \* what the last call returned
    exc,        \* the exception the last call raised ("" for none)
    hist,       \* per address: "never" updated, "updated", or "removed" since
    lastP,      \* per address: the payload of the last update(address, ...)
    lastO,      \* per address: the last non-empty overlay since the last remove
    threads,    \* per thread: its position in the call it is running, its locals
    abs,        \* the store with every call the producer has begun applied whole
    gen,        \* generate_introspection_for: its arguments and what it returned
    param,      \* myDriver: the values of the parameters (getParam / setParam)
    eid,        \* myDriver.eid: the flag of the threading.Event
    writer,     \* the server thread: its position in write, its locals
    sim         \* the thread runSimScope: its position, its locals

vars == <<instance, heap, handles, mapsCreated, lastCall, ret, exc, hist, lastP, lastO,
          threads, abs, gen, param, eid, writer, sim>>

storeVars == <<instance, heap, handles, mapsCreated>>

ghostVars == <<hist, lastP, lastO>>

\* The state of generate_introspection_for and of myDriver
extVars == <<gen, param, eid, writer, sim>>

concVars == <<threads, abs, extVars>>

\* generate_introspection_for not called: every key at its default None
GenIdle == [pc |-> "idle", args |-> [i \in 1..9 |-> None], out |-> EmptyMap]

\* pvdb: the initial values of the parameters the model follows, times in
\* milliseconds and amplitudes in thousandths ('Run' has no 'value': 0)
pvdb == [Run |-> 0, UpdateTime |-> 1000, NoiseAmplitude |-> 200]

\* threading.Event(): flag false
NewEvent == [flag |-> FALSE]

\* The server thread running no write.  reason and arg are the arguments of
\* the write it runs or has last run, value and status the locals of write,
\* returned tells that the call has returned status.  armed and zeroed are
\* history: write('Run', 1) has been called while Run was 0, and write('Run', 0)
\* has been called since.
WriterIdle ==
    [pc |-> "idle", reason |-> "", arg |-> 0, value |-> 0, status |-> FALSE,
     returned |-> FALSE, armed |-> FALSE, zeroed |-> FALSE]

\* runSimScope at the head of its loop (line 80), its locals not yet assigned.
\* woken tells a thread blocked in eid.wait that set() has notified it; cycled
\* is history: it has reached updatePVs since write('Run', 1) was called while
\* Run was 0.
SimStart ==
    [pc |-> "sim81", run |-> 0, updateTime |-> 0, woken |-> FALSE,
     cycled |-> FALSE]

\* myDriver and generate_introspection_for as they are before any call
ExtInit ==
    /\ gen = GenIdle
    /\ param = pvdb
    /\ eid = NewEvent
    /\ writer = WriterIdle
    /\ sim = SimStart

\* DataStore.__instance = None
NoObj == 0

\* object.__new__(DataStore): an object with no attribute set
NewObject ==
    [initialized |-> "unset",
     hasData |-> FALSE, data |-> EmptyMap,
     hasIntrospection |-> FALSE, introspection |-> EmptyMap]


(***************************************************************************)
(* The methods of DataStore, as functions of the object self.              *)
(***************************************************************************)
\* DataStore.__new__, run whole: the class attribute and the heap it leaves;
\* the reference it returns is the class attribute it leaves
__new__(inst, hp) ==
    IF inst = NoObj
    THEN [instance |-> Len(hp) + 1,
          heap |-> Append(hp, [NewObject EXCEPT !.initialized = "False"])]
    ELSE [instance |-> inst, heap |-> hp]

\* __init__ without its test of __initialized: every acquisition makes new maps
init_always(self) ==
    [self EXCEPT !.initialized = "True",
                 !.hasData = TRUE, !.data = EmptyMap,
                 !.hasIntrospection = TRUE, !.introspection = EmptyMap]

\* DataStore.__init__, run whole
__init__(self) ==
    IF self.initialized = "True"
    THEN self
    ELSE [self EXCEPT !.initialized = "True",
                      !.hasData = TRUE, !.data = EmptyMap,
                      !.hasIntrospection = TRUE, !.introspection = EmptyMap]

\* DataStore.introspect
introspect(self, address) == dict_get(self.introspection, address, None)

\* fetch answering an unknown address with an empty dict instead of None
fetch_default_dict(self, address, with_introspection) ==
    LET data == dict_get(self.data, address, Dict({}))
        intro == dict_get(self.introspection, address, None)
    IN  IF with_introspection THEN Tuple(<<data, intro>>) ELSE data

\* DataStore.fetch
fetch(self, address, with_introspection) ==
    LET data == dict_get(self.data, address, None)
        intro == dict_get(self.introspection, address, None)
    IN  IF with_introspection THEN Tuple(<<data, intro>>) ELSE data

\* update storing the payload only when it is truthy (`if data:`)
update_if_data(self, address, data, introspection) ==
    LET s1 == IF Truthy(data)
              THEN [self EXCEPT !.data = dict_update(self.data, address, data)]
              ELSE self
    IN  IF Truthy(introspection)
        THEN [s1 EXCEPT !.introspection =
                            dict_update(s1.introspection, address, introspection)]
        ELSE s1

\* update storing the overlay whatever it is (no `if introspection:`)
update_any_overlay(self, address, data, introspection) ==
    [self EXCEPT !.data = dict_update(self.data, address, data),
                 !.introspection =
                     dict_update(self.introspection, address, introspection)]

\* DataStore.update
update(self, address, data, introspection) ==
    LET s1 == [self EXCEPT !.data = dict_update(self.data, address, data)]
    IN  IF Truthy(introspection)
        THEN [s1 EXCEPT !.introspection =
                            dict_update(s1.introspection, address, introspection)]
        ELSE s1

\* remove dropping the payload and leaving the overlay
remove_data_only(self, address) ==
    [self EXCEPT !.data = dict_pop(self.data, address)]

\* remove storing None under the address instead of dropping it
remove_set_none(self, address) ==
    [self EXCEPT !.data = dict_update(self.data, address, None),
                 !.introspection = dict_update(self.introspection, address, None)]

\* remove emptying both maps (clear() instead of pop(address, None))
remove_clear(self, address) ==
    [self EXCEPT !.data = EmptyMap, !.introspection = EmptyMap]

\* DataStore.remove
remove(self, address) ==
    [self EXCEPT !.data = dict_pop(self.data, address),
                 !.introspection = dict_pop(self.introspection, address)]

\* The object DataStore.introspect leaves
introspect_self(self, address) ==
    [self EXCEPT !.introspection =
                     dict_get_effect(self.introspection, address, None)]

\* The object DataStore.fetch leaves
fetch_self(self, address) ==
    [self EXCEPT !.data = dict_get_effect(self.data, address, None),
                 !.introspection =
                     dict_get_effect(self.introspection, address, None)]

\* DataStore.__getitem__
__getitem__(self, item) == fetch(self, item, FALSE)

\* __setitem__ passing value[1] as the payload and value[0] as the overlay
setitem_call_swapped(value) ==
    IF isinstance(value, "tuple")
    THEN IF Len(value.e) < 2
         THEN [exc |-> "IndexError", data |-> None, introspection |-> None]
         ELSE [exc |-> "", data |-> value.e[2], introspection |-> value.e[1]]
    ELSE IF isinstance(value, "dict")
         THEN [exc |-> "", data |-> value, introspection |-> None]
         ELSE [exc |-> "ValueError", data |-> None, introspection |-> None]

\* What DataStore.__setitem__ does with value: the exception it raises ("" for
\* none) and, when it raises none, the arguments it calls update with.
\* value[0] and value[1] raise IndexError past the end of the tuple.
setitem_call(value) ==
    IF isinstance(value, "tuple")
    THEN IF Len(value.e) < 2
         THEN [exc |-> "IndexError", data |-> None, introspection |-> None]
         ELSE [exc |-> "", data |-> value.e[1], introspection |-> value.e[2]]
    ELSE IF isinstance(value, "dict")
         THEN [exc |-> "", data |-> value, introspection |-> None]
         ELSE [exc |-> "ValueError", data |-> None, introspection |-> None]

\* DataStore.__setitem__
__setitem__(self, key, value) ==
    LET c == setitem_call(value)
    IN  IF c.exc = "" THEN update(self, key, c.data, c.introspection) ELSE self

(***************************************************************************)
(* Spec: the calls made one after the other.  Each call is made through a  *)
(* reference h that an acquisition DataStore() has returned.               *)
(***************************************************************************)
Call(op, self, address, data, introspection, with_introspection, value) ==
    [op |-> op, self |-> self, address |-> address, data |-> data,
     introspection |-> introspection,
     with_introspection |-> with_introspection, value |-> value]

NoCall == Call("", NoObj, 0, None, None, FALSE, None)

\* An overlay argument that was supplied and has an entry
NonEmptyOverlay(o) == o # None /\ o # Dict({})

\* The record of update(address, data, introspection) having been called
NoteUpdate(address, data, introspection) ==
    /\ hist' = [hist EXCEPT ![address] = "updated"]
    /\ lastP' = [lastP EXCEPT ![address] = data]
    /\ lastO' = IF NonEmptyOverlay(introspection)
                THEN [lastO EXCEPT ![address] = introspection]
                ELSE lastO

\* The record of remove(address) having been called
NoteRemove(address) ==
    /\ hist' = [hist EXCEPT ![address] =
                    IF hist[address] = "never" THEN "never" ELSE "removed"]
    /\ lastP' = [lastP EXCEPT ![address] = None]
    /\ lastO' = [lastO EXCEPT ![address] = None]

Init ==
    /\ instance = NoObj
    /\ heap = <<>>
    /\ handles = {}
    /\ mapsCreated = 0
    /\ lastCall = NoCall
    /\ ret = None
    /\ exc = ""
    /\ hist = [a \in Addresses |-> "never"]
    /\ lastP = [a \in Addresses |-> None]
    /\ lastO = [a \in Addresses |-> None]
    /\ threads = <<>>
    /\ abs = NewObject
    /\ ExtInit

\* store = DataStore(): __new__, then __init__ on what it returned
Acquire ==
    LET n == __new__(instance, heap)
        o == n.instance
    IN  /\ instance' = o
        /\ heap' = [n.heap EXCEPT ![o] = __init__(n.heap[o])]
        /\ handles' = handles \cup {o}
        /\ mapsCreated' = IF n.heap[o].initialized = "True"
                          THEN mapsCreated ELSE mapsCreated + 1
        /\ lastCall' = Call("acquire", o, 0, None, None, FALSE, None)
        /\ ret' = None
        /\ exc' = ""
        /\ UNCHANGED <<ghostVars, concVars>>

\* h.update(address, data, introspection)
Update(h, address, data, introspection) ==
    /\ heap' = [heap EXCEPT ![h] = update(heap[h], address, data, introspection)]
    /\ lastCall' = Call("update", h, address, data, introspection, FALSE, None)
    /\ ret' = None
    /\ exc' = ""
    /\ NoteUpdate(address, data, introspection)
    /\ UNCHANGED <<instance, handles, mapsCreated, concVars>>

\* h.remove(address)
Remove(h, address) ==
    /\ heap' = [heap EXCEPT ![h] = remove(heap[h], address)]
    /\ lastCall' = Call("remove", h, address, None, None, FALSE, None)
    /\ ret' = None
    /\ exc' = ""
    /\ NoteRemove(address)
    /\ UNCHANGED <<instance, handles, mapsCreated, concVars>>

\* h.fetch(address, with_introspection)
Fetch(h, address, with_introspection) ==
    /\ ret' = fetch(heap[h], address, with_introspection)
    /\ heap' = [heap EXCEPT ![h] = fetch_self(heap[h], address)]
    /\ lastCall' = Call("fetch", h, address, None, None, with_introspection, None)
    /\ exc' = ""
    /\ UNCHANGED <<instance, handles, mapsCreated, ghostVars, concVars>>

\* h.introspect(address)
Introspect(h, address) ==
    /\ ret' = introspect(heap[h], address)
    /\ heap' = [heap EXCEPT ![h] = introspect_self(heap[h], address)]
    /\ lastCall' = Call("introspect", h, address, None, None, FALSE, None)
    /\ exc' = ""
    /\ UNCHANGED <<instance, handles, mapsCreated, ghostVars, concVars>>

\* h[item]
GetItem(h, item) ==
    /\ ret' = __getitem__(heap[h], item)
    /\ heap' = [heap EXCEPT ![h] = fetch_self(heap[h], item)]
    /\ lastCall' = Call("getitem", h, item, None, None, FALSE, None)
    /\ exc' = ""
    /\ UNCHANGED <<instance, handles, mapsCreated, ghostVars, concVars>>

\* h[key] = value
SetItem(h, key, value) ==
    LET c == setitem_call(value)
    IN  /\ heap' = [heap EXCEPT ![h] = __setitem__(heap[h], key, value)]
        /\ lastCall' = Call("setitem", h, key, None, None, FALSE, value)
        /\ ret' = None
        /\ exc' = c.exc
        /\ IF c.exc = ""
           THEN NoteUpdate(key, c.data, c.introspection)
           ELSE UNCHANGED ghostVars
        /\ UNCHANGED <<instance, handles, mapsCreated, concVars>>

Next ==
    \/ Acquire
    \/ \E h \in handles, a \in Addresses, p \in Payloads, o \in Overlays :
           Update(h, a, p, o)
    \/ \E h \in handles, a \in Addresses : Remove(h, a)
    \/ \E h \in handles, a \in Addresses, wi \in BOOLEAN : Fetch(h, a, wi)
    \/ \E h \in handles, a \in Addresses : Introspect(h, a)
    \/ \E h \in handles, a \in Addresses : GetItem(h, a)
    \/ \E h \in handles, a \in Addresses, v \in SetValues : SetItem(h, a, v)

Spec == Init /\ [][Next]_vars

(***************************************************************************)
(* The claims about calls made one after the other (Spec).                 *)
(***************************************************************************)
\* The payload a fetch returned: the first of the pair with introspection
FetchedData == IF lastCall.with_introspection THEN ret.e[1] ELSE ret

\* The overlay a fetch with introspection returned
FetchedIntro == ret.e[2]

Absent == None

\* C1: a fetch(A) made after update(A, p, ...), with no update(A, ...) or
\* remove(A) in between, returns exactly p and raises nothing, whatever was
\* called on the other addresses.
C1_RoundTrip ==
    (lastCall.op = "fetch" /\ hist[lastCall.address] = "updated")
        => (FetchedData = lastP[lastCall.address] /\ exc = "")

\* C1 happens: a fetch of an updated address returned its payload P2 after
\* another address was updated and the address's own overlay was set.
C1_Witness ==
    /\ lastCall.op = "fetch"
    /\ hist[lastCall.address] = "updated"
    /\ lastP[lastCall.address] = P2
    /\ lastO[lastCall.address] = O1
    /\ ret = P2
    /\ \E b \in Addresses \ {lastCall.address} : hist[b] = "updated" /\ lastP[b] = P1

\* C2: in every state, for every address A, introspect(A) is the overlay of the
\* most recent update(A, ...) that supplied a non-empty overlay since the last
\* remove(A) (absent when there is none): an update without overlay, or with an
\* empty one, leaves the stored overlay as it was.  An introspect call returns it.
C2_OverlayPersists ==
    /\ \A h \in handles, a \in Addresses : introspect(heap[h], a) = lastO[a]
    /\ lastCall.op = "introspect" => ret = lastO[lastCall.address]
    /\ (lastCall.op = "fetch" /\ lastCall.with_introspection)
           => FetchedIntro = lastO[lastCall.address]

\* C2 happens: update(A, P2) with the overlay omitted or empty has just been
\* called on an address whose overlay was O1, and introspect(A) is still O1.
C2_Witness ==
    /\ lastCall.op = "update"
    /\ lastCall.data = P2
    /\ ~NonEmptyOverlay(lastCall.introspection)
    /\ lastO[lastCall.address] = O1
    /\ introspect(heap[lastCall.self], lastCall.address) = O1
    /\ fetch(heap[lastCall.self], lastCall.address, FALSE) = P2

\* C3: from remove(A) until the next update(A, ...), fetch(A) and introspect(A)
\* report absent, on every handle and in what the calls return.
C3_RemoveMakesAbsent ==
    /\ \A h \in handles, a \in Addresses :
           hist[a] = "removed" =>
               /\ fetch(heap[h], a, FALSE) = Absent
               /\ introspect(heap[h], a) = Absent
               /\ fetch(heap[h], a, TRUE) = Tuple(<<Absent, Absent>>)
    /\ (lastCall.op \in {"fetch", "introspect"}
            /\ hist[lastCall.address] = "removed"
            /\ ~lastCall.with_introspection)
           => ret = Absent

\* C3 happens: a fetch of a removed address returned absent while the other
\* address still holds a payload and an overlay.
C3_Witness ==
    /\ lastCall.op = "fetch"
    /\ hist[lastCall.address] = "removed"
    /\ ret = Absent
    /\ \E b \in Addresses \ {lastCall.address} :
           /\ fetch(heap[lastCall.self], b, FALSE) = P1
           /\ introspect(heap[lastCall.self], b) = O2

\* C4: for every address A that update was never called with, fetch(A) and
\* introspect(A) report absent and raise nothing, whatever was called on the
\* other addresses and whatever remove(A) calls were made.
C4_NeverUpdatedAbsent ==
    /\ \A h \in handles, a \in Addresses :
           hist[a] = "never" =>
               /\ fetch(heap[h], a, FALSE) = Absent
               /\ introspect(heap[h], a) = Absent
               /\ fetch(heap[h], a, TRUE) = Tuple(<<Absent, Absent>>)
    /\ (lastCall.op \in {"fetch", "introspect", "getitem"}
            /\ hist[lastCall.address] = "never")
           => (exc = "" /\ ret = IF lastCall.with_introspection
                                 THEN Tuple(<<Absent, Absent>>) ELSE Absent)

\* C4 happens: fetch(A, True) of a never updated address returned (None, None)
\* after the other address was updated with an overlay.
C4_Witness ==
    /\ lastCall.op = "fetch"
    /\ lastCall.with_introspection
    /\ hist[lastCall.address] = "never"
    /\ ret = Tuple(<<None, None>>)
    /\ \E b \in Addresses \ {lastCall.address} : hist[b] = "updated" /\ lastO[b] = O1

\* C5: every acquisition returns the one instance, and acquiring again after
\* writes resets nothing: what was updated is fetched through every handle.
C5_Singleton ==
    /\ Cardinality(handles) <= 1
    /\ handles \subseteq {instance}
    /\ Len(heap) <= 1
    /\ mapsCreated <= 1
    /\ \A h \in handles, a \in Addresses :
           hist[a] = "updated" =>
               /\ fetch(heap[h], a, FALSE) = lastP[a]
               /\ introspect(heap[h], a) = lastO[a]

\* C5 happens: the store has just been acquired again after update(A, P1, O1),
\* and the handle returned fetches P1.
C5_Witness ==
    /\ lastCall.op = "acquire"
    /\ \E a \in Addresses :
           /\ hist[a] = "updated"
           /\ lastP[a] = P1
           /\ lastO[a] = O1
           /\ fetch(heap[lastCall.self], a, TRUE) = Tuple(<<P1, O1>>)

\* A 2-element tuple
IsPair(value) == isinstance(value, "tuple") /\ Len(value.e) = 2

\* C9: store[A] = v with v a mapping leaves the store as update(A, v) does, and
\* with v a pair as update(A, v[0], v[1]) does; neither raises.
C9_IndexedWriteIsUpdate ==
    [][lastCall'.op = "setitem" =>
          LET h == lastCall'.self
              a == lastCall'.address
              v == lastCall'.value
          IN  /\ isinstance(v, "dict") =>
                     (heap'[h] = update(heap[h], a, v, None) /\ exc' = "")
              /\ IsPair(v) =>
                     (heap'[h] = update(heap[h], a, v.e[1], v.e[2]) /\ exc' = "")
      ]_vars

\* C9 happens: store[A] = (P2, {}) has just been executed on an address whose
\* overlay was O1: the payload is P2 and the overlay still O1.
C9_Witness ==
    /\ lastCall.op = "setitem"
    /\ lastCall.value = Tuple(<<P2, Dict({})>>)
    /\ exc = ""
    /\ fetch(heap[lastCall.self], lastCall.address, TRUE) = Tuple(<<P2, O1>>)

\* C10: store[A] = v with v neither a mapping nor a 2-element pair raises
\* ValueError and leaves both maps as they were.
C10_InvalidShapeRejected ==
    [][(lastCall'.op = "setitem"
          /\ ~isinstance(lastCall'.value, "dict")
          /\ ~IsPair(lastCall'.value))
         => (exc' = "ValueError" /\ heap' = heap)
      ]_vars

\* Whether address is a key of the payload map, of the overlay map
HasPayload(self, address) == address \in DOMAIN self.data

HasOverlay(self, address) == address \in DOMAIN self.introspection

\* C12: remove(A) on an address that has neither a payload nor an overlay
\* raises nothing and leaves both maps as they were; removing A again after any
\* remove(A) changes nothing.
C12_RemoveUnknownNoOp ==
    [][lastCall'.op = "remove" =>
          LET h == lastCall'.self
              a == lastCall'.address
          IN  /\ exc' = ""
              /\ (~HasPayload(heap[h], a) /\ ~HasOverlay(heap[h], a))
                     => heap' = heap
              /\ remove(heap'[h], a) = heap'[h]
      ]_vars

\* C12 happens: remove(A) has just been called on an address never updated,
\* while the other address holds a payload and an overlay.
C12_Witness ==
    /\ lastCall.op = "remove"
    /\ hist[lastCall.address] = "never"
    /\ exc = ""
    /\ \E b \in Addresses \ {lastCall.address} :
           /\ fetch(heap[lastCall.self], b, TRUE) = Tuple(<<P1, O1>>)

\* C13: update(A, ...) and remove(A) leave, for every other address B, the
\* payload and the overlay of B (and their absence) as they were.
C13_OtherAddressesUntouched ==
    [][lastCall'.op \in {"update", "remove"} =>
          LET h == lastCall'.self
          IN  \A b \in Addresses \ {lastCall'.address} :
                  /\ HasPayload(heap'[h], b) <=> HasPayload(heap[h], b)
                  /\ HasOverlay(heap'[h], b) <=> HasOverlay(heap[h], b)
                  /\ fetch(heap'[h], b, TRUE) = fetch(heap[h], b, TRUE)
      ]_vars

\* C13 happens: remove(A) has just dropped an entry that had been updated, and
\* the other address still holds its payload P2 and its overlay O2.
C13_Witness ==
    /\ lastCall.op = "remove"
    /\ hist[lastCall.address] = "removed"
    /\ \E b \in Addresses \ {lastCall.address} :
           /\ hist[b] = "updated"
           /\ fetch(heap[lastCall.self], b, TRUE) = Tuple(<<P2, O2>>)

\* C14: fetch, introspect and the indexed read leave both maps as they were
\* (no entry is made for an unknown address) and raise nothing; fetch with
\* introspection returns the pair (fetch(A), introspect(A)), the indexed read
\* what fetch(A) returns.
C14_ReadsArePure ==
    [][lastCall'.op \in {"fetch", "introspect", "getitem"} =>
          LET h == lastCall'.self
              a == lastCall'.address
          IN  /\ heap' = heap
              /\ exc' = ""
              /\ (lastCall'.op = "fetch" /\ lastCall'.with_introspection)
                     => ret' = Tuple(<<fetch(heap[h], a, FALSE),
                                       introspect(heap[h], a)>>)
              /\ lastCall'.op = "getitem" => ret' = fetch(heap[h], a, FALSE)
      ]_vars

\* C14 happens: fetch(A, True) of an unknown address returned (None, None) and
\* A is still a key of neither map, the other address holding (P1, O1).
C14_Witness ==
    /\ lastCall.op = "fetch"
    /\ lastCall.with_introspection
    /\ ret = Tuple(<<None, None>>)
    /\ ~HasPayload(heap[lastCall.self], lastCall.address)
    /\ ~HasOverlay(heap[lastCall.self], lastCall.address)
    /\ \E b \in Addresses \ {lastCall.address} :
           fetch(heap[lastCall.self], b, TRUE) = Tuple(<<P1, O1>>)

\* C15: after any sequence of completed update, remove and indexed-write
\* calls, every address that has a stored overlay has a stored payload.
C15_OverlayImpliesPayload ==
    \A h \in handles :
        DOMAIN heap[h].introspection \subseteq DOMAIN heap[h].data

\* C15 happens: after a remove, one address holds a payload and an overlay,
\* and the address removed holds neither.
C15_Witness ==
    /\ lastCall.op = "remove"
    /\ hist[lastCall.address] = "removed"
    /\ ~HasPayload(heap[lastCall.self], lastCall.address)
    /\ ~HasOverlay(heap[lastCall.self], lastCall.address)
    /\ \E b \in Addresses :
           HasPayload(heap[lastCall.self], b) /\ HasOverlay(heap[lastCall.self], b)

(***************************************************************************)
(* SpecAcq: threads acquiring the store concurrently.  A thread runs       *)
(* DataStore() one attribute read or write at a time; the interpreter may  *)
(* switch threads between any two of them.  obj is the reference the       *)
(* thread has loaded or created, self the one __new__ returned to it.  A   *)
(* thread that holds a handle (pc "ready") calls update through it.        *)
(***************************************************************************)
AcqThread(pc, obj, self, texc) ==
    [pc |-> pc, obj |-> obj, self |-> self, exc |-> texc]

InitAcq ==
    /\ instance = NoObj
    /\ heap = <<>>
    /\ handles = {}
    /\ mapsCreated = 0
    /\ lastCall = NoCall
    /\ ret = None
    /\ exc = ""
    /\ hist = [a \in Addresses |-> "never"]
    /\ lastP = [a \in Addresses |-> None]
    /\ lastO = [a \in Addresses |-> None]
    /\ threads = [t \in Threads |-> AcqThread("idle", NoObj, NoObj, "")]
    /\ abs = NewObject
    /\ ExtInit

acqFrame == <<lastCall, ret, exc, abs, extVars>>

\* thread t calls DataStore()
CallDataStore(t) ==
    /\ threads[t].pc \in {"idle", "ready", "raised"}
    /\ threads' = [threads EXCEPT ![t] = AcqThread("new95", NoObj, NoObj, "")]
    /\ UNCHANGED <<storeVars, ghostVars, acqFrame>>

\* line 95: if cls.__instance is None
New95(t) ==
    /\ threads[t].pc = "new95"
    /\ threads' = [threads EXCEPT ![t].pc =
                       IF instance = NoObj THEN "new96" ELSE "new98"]
    /\ UNCHANGED <<storeVars, ghostVars, acqFrame>>

\* line 96, right-hand side: object.__new__(DataStore)
New96Create(t) ==
    /\ threads[t].pc = "new96"
    /\ heap' = Append(heap, NewObject)
    /\ threads' = [threads EXCEPT ![t].pc = "new96store",
                                  ![t].obj = Len(heap) + 1]
    /\ UNCHANGED <<instance, handles, mapsCreated, ghostVars, acqFrame>>

\* line 96, the assignment: cls.__instance = <the object created>
New96Store(t) ==
    /\ threads[t].pc = "new96store"
    /\ instance' = threads[t].obj
    /\ threads' = [threads EXCEPT ![t].pc = "new97"]
    /\ UNCHANGED <<heap, handles, mapsCreated, ghostVars, acqFrame>>

\* line 97, the read of cls.__instance
New97Load(t) ==
    /\ threads[t].pc = "new97"
    /\ threads' = [threads EXCEPT ![t].pc = "new97store", ![t].obj = instance]
    /\ UNCHANGED <<storeVars, ghostVars, acqFrame>>

\* line 97, the assignment: <cls.__instance>.__initialized = False
New97Store(t) ==
    /\ threads[t].pc = "new97store"
    /\ heap' = [heap EXCEPT ![threads[t].obj].initialized = "False"]
    /\ threads' = [threads EXCEPT ![t].pc = "new98"]
    /\ UNCHANGED <<instance, handles, mapsCreated, ghostVars, acqFrame>>

\* line 98: return cls.__instance; __init__ is then called on it
New98(t) ==
    /\ threads[t].pc = "new98"
    /\ threads' = [threads EXCEPT ![t].pc = "init88", ![t].self = instance]
    /\ UNCHANGED <<storeVars, ghostVars, acqFrame>>

\* line 88: if self.__initialized: return.  The attribute may not be set yet
\* (AttributeError); when it is true DataStore() returns self to the caller.
Init88(t) ==
    /\ threads[t].pc = "init88"
    /\ LET i == heap[threads[t].self].initialized
       IN  /\ threads' = [threads EXCEPT
                  ![t].pc = CASE i = "unset" -> "raised"
                              [] i = "True" -> "ready"
                              [] i = "False" -> "init90",
                  ![t].exc = IF i = "unset" THEN "AttributeError" ELSE ""]
           /\ handles' = IF i = "True" THEN handles \cup {threads[t].self}
                         ELSE handles
    /\ UNCHANGED <<instance, heap, mapsCreated, ghostVars, acqFrame>>

\* line 90: self.__initialized = True
Init90(t) ==
    /\ threads[t].pc = "init90"
    /\ heap' = [heap EXCEPT ![threads[t].self].initialized = "True"]
    /\ threads' = [threads EXCEPT ![t].pc = "init91"]
    /\ UNCHANGED <<instance, handles, mapsCreated, ghostVars, acqFrame>>

\* line 91: self._data = {}
Init91(t) ==
    /\ threads[t].pc = "init91"
    /\ heap' = [heap EXCEPT ![threads[t].self].hasData = TRUE,
                            ![threads[t].self].data = EmptyMap]
    /\ mapsCreated' = mapsCreated + 1
    /\ threads' = [threads EXCEPT ![t].pc = "init92"]
    /\ UNCHANGED <<instance, handles, ghostVars, acqFrame>>

\* line 92: self._introspection = {}; DataStore() returns self to the caller
Init92(t) ==
    /\ threads[t].pc = "init92"
    /\ heap' = [heap EXCEPT ![threads[t].self].hasIntrospection = TRUE,
                            ![threads[t].self].introspection = EmptyMap]
    /\ handles' = handles \cup {threads[t].self}
    /\ threads' = [threads EXCEPT ![t].pc = "ready"]
    /\ UNCHANGED <<instance, mapsCreated, ghostVars, acqFrame>>

\* thread t calls update(address, data) through its handle; self._data may not
\* be set yet (AttributeError at line 157)
UpdateT(t, address, data) ==
    /\ threads[t].pc = "ready"
    /\ IF heap[threads[t].self].hasData
       THEN /\ heap' = [heap EXCEPT ![threads[t].self] =
                            update(heap[threads[t].self], address, data, None)]
            /\ NoteUpdate(address, data, None)
            /\ threads' = [threads EXCEPT ![t].exc = ""]
       ELSE /\ threads' = [threads EXCEPT ![t].exc = "AttributeError"]
            /\ UNCHANGED <<heap, ghostVars>>
    /\ UNCHANGED <<instance, handles, mapsCreated, acqFrame>>

NextAcq ==
    \E t \in Threads :
        \/ CallDataStore(t)
        \/ New95(t)
        \/ New96Create(t)
        \/ New96Store(t)
        \/ New97Load(t)
        \/ New97Store(t)
        \/ New98(t)
        \/ Init88(t)
        \/ Init90(t)
        \/ Init91(t)
        \/ Init92(t)
        \/ \E a \in Addresses, p \in {P1, P2} : UpdateT(t, a, p)

SpecAcq == InitAcq /\ [][NextAcq]_vars

\* Every acquisition that returned, returned the same instance
C6_SameInstance == Cardinality(handles) <= 1

\* The maps were made at most once
C6_MapsCreatedOnce == mapsCreated <= 1

\* Every payload an update stored is fetched through every handle held
C6_NoLostUpdate ==
    \A t \in Threads, a \in Addresses :
        (threads[t].pc = "ready" /\ hist[a] = "updated")
            => fetch(heap[threads[t].self], a, FALSE) = lastP[a]

\* C6: when threads acquire the store concurrently, all of them obtain the same
\* instance, the maps are made exactly once, and no update that completed
\* through a handle is lost to a later acquisition making the maps again.
C6_InitialiseOnce ==
    /\ C6_SameInstance
    /\ C6_MapsCreatedOnce
    /\ C6_NoLostUpdate

\* C6's last part alone, where its first part holds: with one object ever
\* created, no completed update is lost
C6_NoLostUpdateOneInstance ==
    Len(heap) <= 1 => C6_NoLostUpdate

\* No acquisition and no update through an acquired handle raises
C6_NothingRaised == \A t \in Threads : threads[t].exc = ""

(***************************************************************************)
(* SpecConc: calls running concurrently on an acquired store.  Thread 1 is *)
(* the producer (update, remove), thread 2 a consumer (fetch); both work   *)
(* on one address, the accesses to different keys of a dict being          *)
(* independent.  A call runs one map access at a time, and the interpreter *)
(* may switch threads between any two of them.                             *)
(*                                                                         *)
(* abs.done is the store with every call the producer has completed        *)
(* applied whole, abs.begun the same with the call it is running applied   *)
(* too.  A consumer's fetch records the entry of its address in abs.done   *)
(* when it began (before), whether one producer call on that address ran   *)
(* while it ran (overlap), and the entry that call leaves (after).         *)
(***************************************************************************)
Producers == {1}

Consumers == {2}

ConcThreads == Producers \cup Consumers

ConcAddresses == {1}

ConcPayloads == {P1, P2}

ConcOverlays == {None, O1, O2}

\* A thread running no call: its position, the arguments of its call, the
\* local data of fetch, what its fetch returned, and the record of its fetch
IdleThread ==
    [pc |-> "idle", address |-> 0, data |-> None, introspection |-> None,
     with_introspection |-> FALSE, d |-> None, ret |-> None,
     returned |-> FALSE, before |-> None, after |-> None, overlap |-> "none"]

InitConc ==
    /\ LET n == __new__(NoObj, <<>>)
       IN  /\ instance = n.instance
           /\ heap = [n.heap EXCEPT ![n.instance] = __init__(n.heap[n.instance])]
           /\ handles = {n.instance}
           /\ abs = [done |-> __init__(n.heap[n.instance]),
                     begun |-> __init__(n.heap[n.instance])]
    /\ mapsCreated = 1
    /\ lastCall = NoCall
    /\ ret = None
    /\ exc = ""
    /\ hist = [a \in Addresses |-> "never"]
    /\ lastP = [a \in Addresses |-> None]
    /\ lastO = [a \in Addresses |-> None]
    /\ threads = [t \in ConcThreads |-> IdleThread]
    /\ ExtInit

concFrame ==
    <<instance, handles, mapsCreated, lastCall, ret, exc, ghostVars, extVars>>

InFetch(th) == th.pc \in {"fetch135", "fetch136"}

\* What a producer call op on address, leaving the entry pair, is to the
\* fetch thread th is running
Overlapped(th, address, op, pair) ==
    IF InFetch(th) /\ th.address = address
    THEN [th EXCEPT !.overlap = IF th.overlap = "none" THEN op ELSE "many",
                    !.after = IF th.overlap = "none" THEN pair ELSE th.after]
    ELSE th

\* the producer calls update(address, data, introspection)
BeginUpdate(t, address, data, introspection) ==
    /\ t \in Producers
    /\ threads[t].pc = "idle"
    /\ LET b == update(abs.begun, address, data, introspection)
       IN  /\ abs' = [abs EXCEPT !.begun = b]
           /\ threads' = [c \in ConcThreads |->
                  IF c = t
                  THEN [IdleThread EXCEPT !.pc = "update157",
                                          !.address = address,
                                          !.data = data,
                                          !.introspection = introspection]
                  ELSE Overlapped(threads[c], address, "update",
                                  fetch(b, address, TRUE))]
    /\ UNCHANGED <<heap, concFrame>>

\* line 157: self._data.update({address: data})
Update157(t) ==
    /\ threads[t].pc = "update157"
    /\ heap' = [heap EXCEPT ![instance].data =
                    dict_update(heap[instance].data, threads[t].address,
                                threads[t].data)]
    /\ threads' = [threads EXCEPT ![t].pc = "update158"]
    /\ UNCHANGED <<abs, concFrame>>

\* lines 158-159: if introspection: self._introspection.update(...); return
Update158(t) ==
    /\ threads[t].pc = "update158"
    /\ heap' = IF Truthy(threads[t].introspection)
               THEN [heap EXCEPT ![instance].introspection =
                        dict_update(heap[instance].introspection,
                                    threads[t].address, threads[t].introspection)]
               ELSE heap
    /\ threads' = [threads EXCEPT ![t] = IdleThread]
    /\ abs' = [abs EXCEPT !.done = abs.begun]
    /\ UNCHANGED concFrame

\* the producer calls remove(address)
BeginRemove(t, address) ==
    /\ t \in Producers
    /\ threads[t].pc = "idle"
    /\ LET b == remove(abs.begun, address)
       IN  /\ abs' = [abs EXCEPT !.begun = b]
           /\ threads' = [c \in ConcThreads |->
                  IF c = t
                  THEN [IdleThread EXCEPT !.pc = "remove171",
                                          !.address = address]
                  ELSE Overlapped(threads[c], address, "remove",
                                  fetch(b, address, TRUE))]
    /\ UNCHANGED <<heap, concFrame>>

\* line 171: self._data.pop(address, None)
Remove171(t) ==
    /\ threads[t].pc = "remove171"
    /\ heap' = [heap EXCEPT ![instance].data =
                    dict_pop(heap[instance].data, threads[t].address)]
    /\ threads' = [threads EXCEPT ![t].pc = "remove172"]
    /\ UNCHANGED <<abs, concFrame>>

\* line 172: self._introspection.pop(address, None); return
Remove172(t) ==
    /\ threads[t].pc = "remove172"
    /\ heap' = [heap EXCEPT ![instance].introspection =
                    dict_pop(heap[instance].introspection, threads[t].address)]
    /\ threads' = [threads EXCEPT ![t] = IdleThread]
    /\ abs' = [abs EXCEPT !.done = abs.begun]
    /\ UNCHANGED concFrame

\* The producer call running on address, "none" when there is none
Running(address) ==
    IF \E q \in Producers :
           threads[q].pc \in {"update157", "update158"}
               /\ threads[q].address = address
    THEN "update"
    ELSE IF \E q \in Producers :
                threads[q].pc \in {"remove171", "remove172"}
                    /\ threads[q].address = address
         THEN "remove"
         ELSE "none"

\* a consumer calls fetch(address, with_introspection)
BeginFetch(t, address, with_introspection) ==
    /\ t \in Consumers
    /\ threads[t].pc = "idle"
    /\ threads' = [threads EXCEPT ![t] =
           [IdleThread EXCEPT !.pc = "fetch135",
                              !.address = address,
                              !.with_introspection = with_introspection,
                              !.before = fetch(abs.done, address, TRUE),
                              !.after = fetch(abs.begun, address, TRUE),
                              !.overlap = Running(address)]]
    /\ UNCHANGED <<heap, abs, concFrame>>

\* line 135: data = self._data.get(address, None)
Fetch135(t) ==
    /\ threads[t].pc = "fetch135"
    /\ threads' = [threads EXCEPT
           ![t].pc = "fetch136",
           ![t].d = dict_get(heap[instance].data, threads[t].address, None)]
    /\ UNCHANGED <<heap, abs, concFrame>>

\* lines 136-139: intro = self._introspection.get(address, None); return
Fetch136(t) ==
    /\ threads[t].pc = "fetch136"
    /\ LET intro == dict_get(heap[instance].introspection,
                             threads[t].address, None)
       IN  threads' = [threads EXCEPT
               ![t].pc = "idle",
               ![t].returned = TRUE,
               ![t].ret = IF threads[t].with_introspection
                          THEN Tuple(<<threads[t].d, intro>>)
                          ELSE threads[t].d]
    /\ UNCHANGED <<heap, abs, concFrame>>

NextConc ==
    \E t \in ConcThreads :
        \/ \E a \in ConcAddresses, p \in ConcPayloads, o \in ConcOverlays :
               BeginUpdate(t, a, p, o)
        \/ Update157(t)
        \/ Update158(t)
        \/ \E a \in ConcAddresses : BeginRemove(t, a)
        \/ Remove171(t)
        \/ Remove172(t)
        \/ \E a \in ConcAddresses, wi \in BOOLEAN : BeginFetch(t, a, wi)
        \/ Fetch135(t)
        \/ Fetch136(t)

SpecConc == InitConc /\ [][NextConc]_vars

\* A pair whose payload and overlay are both present
BothPresent(pair) == pair.e[1] # None /\ pair.e[2] # None

\* C7: a fetch(A, True) during which remove(A), and no other call on A, ran on
\* an entry that had a payload and an overlay never returns a pair with one
\* component absent and the other present.
C7_RemoveAtomic ==
    \A t \in Consumers :
        (/\ threads[t].returned
         /\ threads[t].with_introspection
         /\ threads[t].overlap = "remove"
         /\ BothPresent(threads[t].before))
            => ((threads[t].ret.e[1] = None) <=> (threads[t].ret.e[2] = None))

\* C8: a fetch(A, True) during which update(A, p2, o2), and no other call on A,
\* ran on an entry holding (p1, o1), with p2 # p1 and o2 # o1, returns (p1, o1)
\* or (p2, o2), never (p2, o1) or (p1, o2).
C8_FetchUpdateAtomic ==
    \A t \in Consumers :
        (/\ threads[t].returned
         /\ threads[t].with_introspection
         /\ threads[t].overlap = "update"
         /\ BothPresent(threads[t].before)
         /\ threads[t].after.e[1] # threads[t].before.e[1]
         /\ threads[t].after.e[2] # threads[t].before.e[2])
            => threads[t].ret \in {threads[t].before, threads[t].after}

(***************************************************************************)
(* SpecGen: DataKeys.generate_introspection_for.  The nine keys are taken  *)
(* in the order of the parameters, which is the order of the roles.        *)
(***************************************************************************)
\* The members of DataKeys, in the order of their declaration
Roles ==
    <<"CONNECTION", "VALUE", "SEVERITY", "WRITE_ACCESS", "ENUM_STRINGS",
      "UNIT", "PRECISION", "UPPER_LIMIT", "LOWER_LIMIT">>

\* lookup_table: the pairs (key given, role), in the order of the roles
lookup_table(args) == [i \in 1..Len(Roles) |-> <<args[i], Roles[i]>>]

\* generate_introspection_for testing `if val is not None` instead of `if val`
generate_introspection_not_none(args) ==
    LET table == lookup_table(args)
        loop[i \in 0..Len(table)] ==
            IF i = 0
            THEN EmptyMap
            ELSE IF table[i][1] # None
                 THEN dict_update(loop[i - 1], table[i][2], table[i][1])
                 ELSE loop[i - 1]
    IN  loop[Len(table)]

\* DataKeys.generate_introspection_for: loop[i] is the dict introspection
\* after the first i pairs of lookup_table
generate_introspection_for(args) ==
    LET table == lookup_table(args)
        loop[i \in 0..Len(table)] ==
            IF i = 0
            THEN EmptyMap
            ELSE IF Truthy(table[i][1])
                 THEN dict_update(loop[i - 1], table[i][2], table[i][1])
                 ELSE loop[i - 1]
    IN  loop[Len(table)]

\* What a key is given as: omitted (None), empty, or one of two names
KeyInputs == {None, Str(""), Str("value"), Str("sevr")}

InitGen ==
    /\ instance = NoObj
    /\ heap = <<>>
    /\ handles = {}
    /\ mapsCreated = 0
    /\ lastCall = NoCall
    /\ ret = None
    /\ exc = ""
    /\ hist = [a \in Addresses |-> "never"]
    /\ lastP = [a \in Addresses |-> None]
    /\ lastO = [a \in Addresses |-> None]
    /\ threads = <<>>
    /\ abs = NewObject
    /\ gen \in {[GenIdle EXCEPT !.args = a] : a \in [1..Len(Roles) -> KeyInputs]}
    /\ param = pvdb
    /\ eid = NewEvent
    /\ writer = WriterIdle
    /\ sim = SimStart

\* DataKeys.VALUE.generate_introspection_for(*args)
Generate ==
    /\ gen.pc = "idle"
    /\ gen' = [gen EXCEPT !.pc = "done",
                          !.out = generate_introspection_for(gen.args)]
    /\ UNCHANGED <<storeVars, lastCall, ret, exc, ghostVars, threads, abs,
                   param, eid, writer, sim>>

NextGen == Generate

SpecGen == InitGen /\ [][NextGen]_vars

\* A key that was supplied and is not empty
NonEmptyKey(k) == k.t = "str" /\ k.s # ""

\* C11: the mapping generate_introspection_for returns has exactly the roles
\* given a non-empty key, each mapped to the key given for that role.
C11_ExactlyTheRolesGiven ==
    gen.pc = "done" =>
        /\ DOMAIN gen.out =
               {Roles[i] : i \in {j \in 1..Len(Roles) : NonEmptyKey(gen.args[j])}}
        /\ \A i \in 1..Len(Roles) :
               NonEmptyKey(gen.args[i]) => gen.out[Roles[i]] = gen.args[i]

\* C11 happens: called with value_key "value", severity_key "sevr", unit_key
\* empty and the rest omitted, it returned VALUE -> "value", SEVERITY -> "sevr".
C11_Witness ==
    /\ gen.pc = "done"
    /\ gen.args = <<None, Str("value"), Str("sevr"), None, None, Str(""),
                    None, None, None>>
    /\ DOMAIN gen.out = {"VALUE", "SEVERITY"}
    /\ gen.out["VALUE"] = Str("value")
    /\ gen.out["SEVERITY"] = Str("sevr")

(***************************************************************************)
(* SpecIoc: myDriver of src/testing-ioc.py.  The server thread runs write  *)
(* calls one after the other; the thread runSimScope loops.  Each step is  *)
(* one access to a parameter or to the event eid.  Times are in            *)
(* milliseconds.                                                           *)
(***************************************************************************)
MIN_UPDATE_TIME == 10

\* The parameters followed and the values written to them
IocReasons == {"Run", "UpdateTime", "NoiseAmplitude"}

WriteValues(reason) == IF reason = "Run" THEN {0, 1} ELSE {-5, 5, 10, 20}

\* max(a, b) of Python: the first argument unless the second is greater
max(a, b) == IF b > a THEN b ELSE a

\* write storing the value as it was given
write_value_unclamped(reason, value) == value

\* The value myDriver.write stores for reason (lines 64-65)
write_value(reason, value) ==
    IF reason = "UpdateTime" THEN max(MIN_UPDATE_TIME, value) ELSE value

\* The thread runSimScope is blocked in eid.wait, not yet notified
Blocked == sim.pc \in {"wait84", "wait86"} /\ ~sim.woken

InitIoc ==
    /\ instance = NoObj
    /\ heap = <<>>
    /\ handles = {}
    /\ mapsCreated = 0
    /\ lastCall = NoCall
    /\ ret = None
    /\ exc = ""
    /\ hist = [a \in Addresses |-> "never"]
    /\ lastP = [a \in Addresses |-> None]
    /\ lastO = [a \in Addresses |-> None]
    /\ threads = <<>>
    /\ abs = NewObject
    /\ ExtInit

iocFrame ==
    <<storeVars, lastCall, ret, exc, ghostVars, threads, abs, gen>>

\* write(reason, value) is called; line 62: status = True
BeginWrite(reason, value) ==
    /\ writer.pc = "idle"
    /\ LET arming == reason = "Run" /\ value = 1 /\ param.Run = 0
       IN  /\ writer' = [pc |-> "w63", reason |-> reason, arg |-> value,
                         value |-> value, status |-> TRUE, returned |-> FALSE,
                         armed |-> writer.armed \/ arming,
                         zeroed |-> IF arming THEN FALSE
                                    ELSE writer.zeroed
                                             \/ (reason = "Run" /\ value = 0)]
           /\ sim' = [sim EXCEPT !.cycled = IF arming THEN FALSE ELSE @]
    /\ UNCHANGED <<param, eid, iocFrame>>

\* lines 64-65: value = max(MIN_UPDATE_TIME, value)
Write65 ==
    /\ writer.pc = "w63"
    /\ writer.reason = "UpdateTime"
    /\ writer' = [writer EXCEPT !.pc = "w71",
                                !.value = write_value(writer.reason, @)]
    /\ UNCHANGED <<param, eid, sim, iocFrame>>

\* lines 66-67: if not self.getParam('Run') and value == 1
Write67 ==
    /\ writer.pc = "w63"
    /\ writer.reason = "Run"
    /\ writer' = [writer EXCEPT !.pc = IF param.Run = 0 /\ writer.value = 1
                                       THEN "w68" ELSE "w71"]
    /\ UNCHANGED <<param, eid, sim, iocFrame>>

\* Neither branch of lines 64-69: the value is stored as given
WriteOther ==
    /\ writer.pc = "w63"
    /\ writer.reason \notin {"UpdateTime", "Run"}
    /\ writer' = [writer EXCEPT !.pc = "w71",
                                !.value = write_value(writer.reason, @)]
    /\ UNCHANGED <<param, eid, sim, iocFrame>>

\* line 68: self.eid.set() sets the flag and notifies the thread if it waits
Write68 ==
    /\ writer.pc = "w68"
    /\ eid' = [eid EXCEPT !.flag = TRUE]
    /\ sim' = [sim EXCEPT !.woken = @ \/ Blocked]
    /\ writer' = [writer EXCEPT !.pc = "w69"]
    /\ UNCHANGED <<param, iocFrame>>

\* line 69: self.eid.clear()
Write69 ==
    /\ writer.pc = "w69"
    /\ eid' = [eid EXCEPT !.flag = FALSE]
    /\ writer' = [writer EXCEPT !.pc = "w71"]
    /\ UNCHANGED <<param, sim, iocFrame>>

\* lines 71-72: if status: self.setParam(reason, value)
Write72 ==
    /\ writer.pc = "w71"
    /\ param' = IF writer.status
                THEN [param EXCEPT ![writer.reason] = writer.value]
                ELSE param
    /\ writer' = [writer EXCEPT !.pc = "w73"]
    /\ UNCHANGED <<eid, sim, iocFrame>>

\* line 73: return status
Write73 ==
    /\ writer.pc = "w73"
    /\ writer' = [writer EXCEPT !.pc = "idle", !.returned = TRUE]
    /\ UNCHANGED <<param, eid, sim, iocFrame>>

\* line 81: run = self.getParam('Run')
Sim81 ==
    /\ sim.pc = "sim81"
    /\ sim' = [sim EXCEPT !.pc = "sim82", !.run = param.Run]
    /\ UNCHANGED <<param, eid, writer, iocFrame>>

\* line 82: updateTime = self.getParam('UpdateTime')
Sim82 ==
    /\ sim.pc = "sim82"
    /\ sim' = [sim EXCEPT !.pc = "sim83", !.updateTime = param.UpdateTime]
    /\ UNCHANGED <<param, eid, writer, iocFrame>>

\* lines 83-86: eid.wait(updateTime) if run else eid.wait().  wait returns at
\* once if the flag is set and blocks otherwise.
Sim83 ==
    /\ sim.pc = "sim83"
    /\ sim' = [sim EXCEPT !.pc = IF eid.flag THEN "sim87"
                                 ELSE IF sim.run # 0 THEN "wait84"
                                 ELSE "wait86",
                          !.woken = FALSE]
    /\ UNCHANGED <<param, eid, writer, iocFrame>>

\* line 84: eid.wait(updateTime) returns, notified or timed out
Wait84Return ==
    /\ sim.pc = "wait84"
    /\ sim' = [sim EXCEPT !.pc = "sim87", !.woken = FALSE]
    /\ UNCHANGED <<param, eid, writer, iocFrame>>

\* line 86: eid.wait() returns, which it does only when notified
Wait86Return ==
    /\ sim.pc = "wait86"
    /\ sim.woken
    /\ sim' = [sim EXCEPT !.pc = "sim87", !.woken = FALSE]
    /\ UNCHANGED <<param, eid, writer, iocFrame>>

\* lines 87-88: run = self.getParam('Run'); if not run: continue
Sim87 ==
    /\ sim.pc = "sim87"
    /\ sim' = [sim EXCEPT !.run = param.Run,
                          !.pc = IF param.Run = 0 THEN "sim81" ELSE "sim90"]
    /\ UNCHANGED <<param, eid, writer, iocFrame>>

\* lines 90-125: one update cycle, up to self.updatePVs().  It writes none of
\* the parameters followed.
UpdateCycle ==
    /\ sim.pc = "sim90"
    /\ sim' = [sim EXCEPT !.pc = "sim81", !.cycled = TRUE]
    /\ UNCHANGED <<param, eid, writer, iocFrame>>

NextIoc ==
    \/ \E reason \in IocReasons : \E value \in WriteValues(reason) :
           BeginWrite(reason, value)
    \/ Write65
    \/ Write67
    \/ WriteOther
    \/ Write68
    \/ Write69
    \/ Write72
    \/ Write73
    \/ Sim81
    \/ Sim82
    \/ Sim83
    \/ Wait84Return
    \/ Wait86Return
    \/ Sim87
    \/ UpdateCycle

SpecIoc == InitIoc /\ [][NextIoc]_vars

\* write('Run', 1) was called while Run was 0 and has returned, Run is 1 and has
\* not been written to 0 since, and the thread has made no update cycle since
Started ==
    /\ writer.armed
    /\ ~writer.zeroed
    /\ writer.pc = "idle"
    /\ param.Run = 1
    /\ ~sim.cycled

\* C16: once write('Run', 1), called while Run was 0, has returned, with Run not
\* written to 0 since, the thread runSimScope is not left blocked in its
\* untimed eid.wait() with nobody to notify it before it has made an update
\* cycle.
C16_NoLostWakeUp == Started => ~(sim.pc = "wait86" /\ Blocked)

\* The thread blocked in the untimed wait while Run is 1 and no eid.set() is
\* pending
Lost ==
    /\ sim.pc = "wait86"
    /\ Blocked
    /\ param.Run = 1
    /\ ~writer.zeroed
    /\ writer.pc # "w68"
    /\ writer.pc \in {"w63", "w71", "w73"} =>
           (writer.reason = "Run" => writer.value = 1)

\* A lost wake-up is for good: as long as write('Run', 0) is not called, the
\* thread stays blocked whatever write is called
LostIsPermanent ==
    [][(Lost /\ ~(writer.pc = "idle" /\ writer'.reason = "Run"
                                     /\ writer'.arg = 0 /\ writer'.pc = "w63"))
           => Lost']_vars

\* C17: the stored UpdateTime is never below MIN_UPDATE_TIME; when a write has
\* returned it has returned True, and the parameter written holds
\* MIN_UPDATE_TIME for an UpdateTime below it and the value given otherwise.
C17_UpdateTimeFloor ==
    /\ param.UpdateTime >= MIN_UPDATE_TIME
    /\ (writer.pc = "idle" /\ writer.returned) =>
           /\ writer.status = TRUE
           /\ param[writer.reason] =
                  IF writer.reason = "UpdateTime" /\ writer.arg < MIN_UPDATE_TIME
                  THEN MIN_UPDATE_TIME
                  ELSE writer.arg

\* C17 happens: write('UpdateTime', -5) has returned and UpdateTime holds
\* MIN_UPDATE_TIME, after a write of NoiseAmplitude stored -5.
C17_Witness ==
    /\ writer.pc = "idle"
    /\ writer.returned
    /\ writer.reason = "UpdateTime"
    /\ writer.arg = -5
    /\ param.UpdateTime = MIN_UPDATE_TIME
    /\ param.NoiseAmplitude = -5

=============================================================================
